---- MODULE Spec2Model ----
(***************************************************************************)
(* Model of boost::numeric::safe_base<Stored, Derived, P, E>                *)
(* (include/safe_base.hpp).  One safe value is followed from construction   *)
(* to destruction; every member function is one action.  The template      *)
(* parameters (stored representation, the derived class' validate, the      *)
(* promotion policy P and the exception policy E) are fixed in Init and     *)
(* never change.                                                            *)
(***************************************************************************)
EXTENDS Integers, Sequences, FiniteSets, TLC

\* Width in bits of the stored representation (the program's is a template
\* parameter; a small width keeps every boundary case in range).
StoredBits == 3

\* How many bits the widening promotion policy adds to the stored width.
PromoExtra == 1

Pow2(n) == 2 ^ n

Abs(x) == IF x < 0 THEN -x ELSE x

\* The closed range of a w-bit integer representation.
RepMin(sgn, w) == IF sgn THEN -Pow2(w - 1) ELSE 0
RepMax(sgn, w) == IF sgn THEN Pow2(w - 1) - 1 ELSE Pow2(w) - 1

\* An instantiation: signedness and width of Stored, the domain [Min, Max]
\* accepted by Derived::validate, and the width of the representation the
\* promotion policy P chooses for the result of a binary operator.
MkVariant(sgn, lo, hi, pw) ==
    [signed |-> sgn, bits |-> StoredBits,
     SMin |-> RepMin(sgn, StoredBits), SMax |-> RepMax(sgn, StoredBits),
     Min |-> lo, Max |-> hi,
     pbits |-> pw, PMin |-> RepMin(sgn, pw), PMax |-> RepMax(sgn, pw)]

Variants ==
    { \* signed, whole stored range, P widens the result
      MkVariant(TRUE, RepMin(TRUE, StoredBits), RepMax(TRUE, StoredBits),
                StoredBits + PromoExtra),
      \* signed, whole stored range, P keeps the stored representation
      MkVariant(TRUE, RepMin(TRUE, StoredBits), RepMax(TRUE, StoredBits),
                StoredBits),
      \* signed, a sub-range of the stored representation, P widens
      MkVariant(TRUE, RepMin(TRUE, StoredBits) + 2, RepMax(TRUE, StoredBits) - 1,
                StoredBits + PromoExtra),
      \* unsigned, whole stored range, P widens
      MkVariant(FALSE, 0, RepMax(FALSE, StoredBits), StoredBits + PromoExtra) }

\* E either leaves by an exception or logs and returns.
Policies == {"throw", "return"}

\* Values of the argument type T of the constructor and of operator=.
RawValues == (RepMin(TRUE, StoredBits) - 2) .. (RepMax(FALSE, StoredBits) + 2)

VARIABLES
    variant,      \* the instantiation (Stored, Derived::validate, P)
    policy,       \* the exception policy E
    alive,        \* an object exists
    origin,       \* which constructor made it
    m_t,          \* Stored m_t
    op,           \* the last member function called, its argument, m_t before
    errs,         \* the calls made to E during the last member function
    thrown,       \* the last member function left by an exception
    ret,          \* what the last member function returned
    cap,          \* the result of a postfix operator, while the caller keeps it
    cmp,          \* the results of the six relational operators
    unvalidated,  \* the last member function stored a value validate did not accept
    pc            \* the caller: "idle" between calls, "called" on return from one

vars == <<variant, policy, alive, origin, m_t, op, errs, thrown, ret, cap, cmp,
          unvalidated, pc>>

\* Derived::validate(raw): raw lies in the variant's domain.
validate(x) == variant.Min <= x /\ x <= variant.Max

\* Conversion of an integer to Stored (m_t = rhs, m_t(t)): modulo 2^bits.
ToStored(x) ==
    variant.SMin + ((x - variant.SMin) % (variant.SMax - variant.SMin + 1))

(***************************************************************************)
(* Exact integer results of the built-in operators, as C++ defines them.   *)
(***************************************************************************)
\* Integer division truncates toward zero.
CDiv(a, b) ==
    IF (a >= 0) = (b > 0) THEN Abs(a) \div Abs(b) ELSE -(Abs(a) \div Abs(b))

\* The remainder has the sign of the dividend.
CMod(a, b) == a - b * CDiv(a, b)

\* Bitwise combination of two naturals below 2^n.
RECURSIVE BitW(_, _, _, _)
BitW(k, x, y, n) ==
    IF n = 0 THEN 0
    ELSE LET bx == x % 2
             by == y % 2
             bit == CASE k = "or"  -> IF bx + by > 0 THEN 1 ELSE 0
                      [] k = "and" -> bx * by
                      [] k = "xor" -> (bx + by) % 2
         IN  bit + 2 * BitW(k, x \div 2, y \div 2, n - 1)

\* Bitwise operator on two's-complement operands of the promoted width.
Bitwise(k, a, b) ==
    LET w == variant.pbits
        u == BitW(k, a % Pow2(w), b % Pow2(w), w)
    IN  IF variant.signed /\ u >= Pow2(w - 1) THEN u - Pow2(w) ELSE u

OpKinds == {"add", "sub", "mul", "div", "mod", "or", "and", "xor", "shr", "shl"}

\* The mathematically exact result of a OP b.
Exact(k, a, b) ==
    CASE k = "add" -> a + b
      [] k = "sub" -> a - b
      [] k = "mul" -> a * b
      [] k = "div" -> CDiv(a, b)
      [] k = "mod" -> CMod(a, b)
      [] k \in {"or", "and", "xor"} -> Bitwise(k, a, b)
      [] k = "shr" -> a \div Pow2(b)
      [] k = "shl" -> a * Pow2(b)

\* Right-hand operands of the binary operators: the values of Stored for
\* which operator k is defined at all (no division by zero), and the shift
\* amounts up to one past the width.
Operands(k) ==
    CASE k \in {"div", "mod"} -> (variant.SMin .. variant.SMax) \ {0}
      [] k \in {"shr", "shl"} -> 0 .. (variant.bits + 1)
      [] OTHER -> variant.SMin .. variant.SMax

\* A shift the checked layer rejects: negative left operand, or a shift
\* amount above the operand's width.
BadShift(k, a, b) == k \in {"shr", "shl"} /\ (a < 0 \/ b > variant.bits)

\* The checked binary operator `*this OP rhs`: the exact result held in the
\* promoted representation, overflow_error when it does not fit or the
\* shift is rejected.  Each outcome is [val, errs, thrown].  What the
\* operator yields when E returns from overflow_error is not defined (the
\* built-in operation overflows): it may be any value of the promoted
\* representation.
BinOp(k, a, b) ==
    LET e == Exact(k, a, b)
        fits == variant.PMin <= e /\ e <= variant.PMax /\ ~BadShift(k, a, b)
    IN  IF fits
        THEN {[val |-> e, errs |-> <<>>, thrown |-> FALSE]}
        ELSE IF policy = "throw"
        THEN {[val |-> 0, errs |-> <<"overflow_error">>, thrown |-> TRUE]}
        ELSE {[val |-> v, errs |-> <<"overflow_error">>, thrown |-> FALSE] :
                 v \in variant.PMin .. variant.PMax}

(***************************************************************************)
(* safe_compare: relational primitives on operands of possibly different   *)
(* signedness.  sa, sb tell whether a, b are of a signed type.              *)
(***************************************************************************)
less_than(a, sa, b, sb) ==
    IF sa = sb THEN a < b
    ELSE IF sa THEN (IF a < 0 THEN TRUE ELSE a < b)
    ELSE (IF b < 0 THEN FALSE ELSE a < b)

greater_than(a, sa, b, sb) == less_than(b, sb, a, sa)

equal(a, sa, b, sb) == ~less_than(a, sa, b, sb) /\ ~less_than(b, sb, a, sa)

\* Right-hand operands of the relational operators: any value of a signed
\* or of an unsigned type of the promoted width.
CmpWidth == StoredBits + PromoExtra
CmpOperands(sb) == RepMin(sb, CmpWidth) .. RepMax(sb, CmpWidth)

\* The built-in comparison a < b after the usual arithmetic conversions:
\* with mixed signedness the signed operand is converted to unsigned.
NativeLess(a, sa, b, sb) ==
    IF sa = sb THEN a < b
    ELSE (a % Pow2(CmpWidth)) < (b % Pow2(CmpWidth))

\* operator<, operator>, operator== and their negations, on m_t and rhs.
OpLessNative(rhs, rs) == NativeLess(m_t, variant.signed, rhs, rs)
OpLess(rhs, rs) == less_than(m_t, variant.signed, rhs, rs)
OpGreater(rhs, rs) == greater_than(m_t, variant.signed, rhs, rs)
OpEqual(rhs, rs) == equal(m_t, variant.signed, rhs, rs)
OpNotEqual(rhs, rs) == ~equal(m_t, variant.signed, rhs, rs)
OpGreaterEqual(rhs, rs) == ~less_than(m_t, variant.signed, rhs, rs)
OpLessEqual(rhs, rs) == ~greater_than(m_t, variant.signed, rhs, rs)

(***************************************************************************)
(* Outcomes of the member functions: [m, errs, thrown, unval] is the value  *)
(* of m_t afterwards, the calls made to E, whether an exception left the   *)
(* function, and whether a value validate did not accept was stored.       *)
(***************************************************************************)
NoRet == [kind |-> "none", val |-> 0]
NoCap == [kind |-> "none", val |-> 0, pre |-> 0]
NoCmp == [b |-> 0, bs |-> FALSE, lt |-> FALSE, gt |-> FALSE, eq |-> FALSE,
          ne |-> FALSE, ge |-> FALSE, le |-> FALSE]
NoOp == [name |-> "none", kind |-> "", arg |-> 0, pre |-> 0]

\* operator=(rhs): validate, range_error on failure, then m_t = rhs.
AssignOut(m, rhs) ==
    IF validate(rhs)
    THEN [m |-> ToStored(rhs), errs |-> <<>>, thrown |-> FALSE, unval |-> FALSE]
    ELSE IF policy = "throw"
    THEN [m |-> m, errs |-> <<"range_error">>, thrown |-> TRUE, unval |-> FALSE]
    ELSE [m |-> ToStored(rhs), errs |-> <<"range_error">>, thrown |-> FALSE,
          unval |-> TRUE]

\* `*this = (result of a binary operator)`: the operator's outcome b, then
\* operator= unless the operator left by an exception.
ThenAssign(m, b) ==
    IF b.thrown
    THEN [m |-> m, errs |-> b.errs, thrown |-> TRUE, unval |-> FALSE]
    ELSE LET a == AssignOut(m, b.val)
         IN  [a EXCEPT !.errs = b.errs \o a.errs]

\* The binary operator each compound assignment applies.
CompoundBinOp(k) == IF k = "xor" THEN "mul" ELSE k

\* Whether the compound assignment stores through operator=.
CompoundViaAssign(k) == k # "add"

\* operator OP=(rhs): operator+= stores the sum directly, the others assign.
CompoundOut(k, m, r) ==
    { IF CompoundViaAssign(k) THEN ThenAssign(m, b)
      ELSE IF b.thrown
      THEN [m |-> m, errs |-> b.errs, thrown |-> TRUE, unval |-> FALSE]
      ELSE [m |-> ToStored(b.val), errs |-> b.errs, thrown |-> FALSE,
            unval |-> TRUE] :
      b \in BinOp(CompoundBinOp(k), m, r) }

\* Prefix ++ / --: *this = *this +/- 1.
PrefixOut(k, m) == { ThenAssign(m, b) : b \in BinOp(k, m, 1) }

\* Postfix ++ / --: validate(*this +/- 1), overflow_error on failure; the
\* increment is applied to the local copy t, m_t is not written.
PostfixOut(k, m) ==
    { IF b.thrown
      THEN [m |-> m, errs |-> b.errs, thrown |-> TRUE, unval |-> FALSE]
      ELSE IF validate(b.val)
      THEN [m |-> m, errs |-> b.errs, thrown |-> FALSE, unval |-> FALSE]
      ELSE [m |-> m, errs |-> b.errs \o <<"overflow_error">>,
            thrown |-> (policy = "throw"), unval |-> FALSE] :
      b \in BinOp(k, m, 1) }

\* What postfix ++ and postfix -- return: a value, a reference to *this.
PostfixRetKind(k) == IF k = "add" THEN "copy" ELSE "ref"

\* Unary minus: *this = 0 - *this.
NegOut(m) == { ThenAssign(m, b) : b \in BinOp("sub", 0, m) }

\* Unary ~: validate(~m_t), overflow_error on failure; m_t is not written.
ComplOut(m) ==
    IF validate(-m - 1)
    THEN [m |-> m, errs |-> <<>>, thrown |-> FALSE, unval |-> FALSE]
    ELSE [m |-> m, errs |-> <<"overflow_error">>, thrown |-> (policy = "throw"),
          unval |-> FALSE]

\* The state after a member function with outcome out has run.
Effect(name, kind, arg, out, retKind) ==
    /\ m_t' = out.m
    /\ errs' = out.errs
    /\ thrown' = out.thrown
    /\ unvalidated' = out.unval
    /\ op' = [name |-> name, kind |-> kind, arg |-> arg, pre |-> m_t]
    /\ ret' = IF out.thrown THEN NoRet ELSE [kind |-> retKind, val |-> out.m]

(***************************************************************************)
(* Initial state and the actions: one per constructor or member function.  *)
(***************************************************************************)
Init ==
    /\ variant \in Variants
    /\ policy \in Policies
    /\ alive = FALSE
    /\ origin = "none"
    /\ m_t = 0
    /\ op = NoOp
    /\ errs = <<>>
    /\ thrown = FALSE
    /\ ret = NoRet
    /\ cap = NoCap
    /\ cmp = NoCmp
    /\ unvalidated = FALSE
    /\ pc = "idle"

\* safe_base(T & t): m_t(t), then validate(t), range_error on failure.
\* An exception leaves no object behind; when E returns, the object exists
\* with the converted argument in it.
Construct(t) ==
    /\ pc = "idle"
    /\ ~alive
    /\ pc' = "called"
    /\ LET bad == ~validate(t)
           thr == bad /\ policy = "throw"
       IN  /\ alive' = ~thr
           /\ origin' = IF thr THEN "none" ELSE IF bad THEN "rejected" ELSE "value"
           /\ m_t' = IF thr THEN 0 ELSE ToStored(t)
           /\ errs' = IF bad THEN <<"range_error">> ELSE <<>>
           /\ thrown' = thr
           /\ unvalidated' = (bad /\ ~thr)
    /\ op' = [name |-> "construct", kind |-> "", arg |-> t, pre |-> 0]
    /\ ret' = NoRet
    /\ cap' = NoCap
    /\ cmp' = NoCmp
    /\ UNCHANGED <<variant, policy>>

\* safe_base(): m_t is left uninitialized, any value of Stored.
DefaultConstruct ==
    /\ pc = "idle"
    /\ ~alive
    /\ pc' = "called"
    /\ alive' = TRUE
    /\ origin' = "default"
    /\ m_t' \in variant.SMin .. variant.SMax
    /\ errs' = <<>>
    /\ thrown' = FALSE
    /\ unvalidated' = FALSE
    /\ op' = [name |-> "default", kind |-> "", arg |-> 0, pre |-> 0]
    /\ ret' = NoRet
    /\ cap' = NoCap
    /\ cmp' = NoCmp
    /\ UNCHANGED <<variant, policy>>

\* safe_base(const safe_base & t): m_t(t.m_t), no validation.  The model
\* goes on with the copy.
CopyConstruct ==
    /\ pc = "idle"
    /\ alive
    /\ pc' = "called"
    /\ origin' = IF origin = "value" THEN "copy" ELSE origin
    /\ errs' = <<>>
    /\ thrown' = FALSE
    /\ op' = [name |-> "copy", kind |-> "", arg |-> 0, pre |-> m_t]
    /\ ret' = NoRet
    /\ cap' = NoCap
    /\ cmp' = NoCmp
    /\ unvalidated' = FALSE
    /\ UNCHANGED <<variant, policy, alive, m_t>>

\* The owning scope ends.
Destroy ==
    /\ pc = "idle"
    /\ alive
    /\ pc' = "called"
    /\ alive' = FALSE
    /\ origin' = "none"
    /\ m_t' = 0
    /\ op' = NoOp
    /\ errs' = <<>>
    /\ thrown' = FALSE
    /\ ret' = NoRet
    /\ cap' = NoCap
    /\ cmp' = NoCmp
    /\ unvalidated' = FALSE
    /\ UNCHANGED <<variant, policy>>

\* A member function that calls nothing and stores nothing.
Quiet(m) == [m |-> m, errs |-> <<>>, thrown |-> FALSE, unval |-> FALSE]

\* get_stored_value(): return m_t.
Get ==
    /\ pc = "idle"
    /\ alive
    /\ pc' = "called"
    /\ Effect("get", "", 0, Quiet(m_t), "raw")
    /\ cmp' = NoCmp
    /\ UNCHANGED <<variant, policy, alive, origin, cap>>

\* explicit operator const Stored &(): return m_t.
Convert ==
    /\ pc = "idle"
    /\ alive
    /\ pc' = "called"
    /\ Effect("convert", "", 0, Quiet(m_t), "raw")
    /\ cmp' = NoCmp
    /\ UNCHANGED <<variant, policy, alive, origin, cap>>

\* operator=(rhs).
Assign(rhs) ==
    /\ pc = "idle"
    /\ alive
    /\ pc' = "called"
    /\ Effect("assign", "", rhs, AssignOut(m_t, rhs), "ref")
    /\ cmp' = NoCmp
    /\ UNCHANGED <<variant, policy, alive, origin, cap>>

\* operator+=, -=, *=, /=, %=, |=, &=, ^=, >>=, <<=.
Compound(k, r) ==
    /\ pc = "idle"
    /\ alive
    /\ pc' = "called"
    /\ \E out \in CompoundOut(k, m_t, r) : Effect("compound", k, r, out, "ref")
    /\ cmp' = NoCmp
    /\ UNCHANGED <<variant, policy, alive, origin, cap>>

\* operator++() and operator--().
Prefix(k) ==
    /\ pc = "idle"
    /\ alive
    /\ pc' = "called"
    /\ \E out \in PrefixOut(k, m_t) : Effect("prefix", k, 1, out, "copy")
    /\ cmp' = NoCmp
    /\ UNCHANGED <<variant, policy, alive, origin, cap>>

\* operator++(int) and operator--(int); the caller keeps the result.
Postfix(k) ==
    /\ pc = "idle"
    /\ alive
    /\ pc' = "called"
    /\ \E out \in PostfixOut(k, m_t) :
          /\ Effect("postfix", k, 1, out, PostfixRetKind(k))
          /\ cap' = IF out.thrown THEN NoCap
                    ELSE [kind |-> PostfixRetKind(k), val |-> out.m, pre |-> m_t]
    /\ cmp' = NoCmp
    /\ UNCHANGED <<variant, policy, alive, origin>>

\* operator-(): instantiable for a signed Stored only.
Neg ==
    /\ pc = "idle"
    /\ alive
    /\ pc' = "called"
    /\ variant.signed
    /\ \E out \in NegOut(m_t) : Effect("neg", "sub", 0, out, "copy")
    /\ cmp' = NoCmp
    /\ UNCHANGED <<variant, policy, alive, origin, cap>>

\* operator~(): instantiable for a signed Stored only.
Compl ==
    /\ pc = "idle"
    /\ alive
    /\ pc' = "called"
    /\ variant.signed
    /\ Effect("compl", "", 0, ComplOut(m_t), "copy")
    /\ cmp' = NoCmp
    /\ UNCHANGED <<variant, policy, alive, origin, cap>>

\* The six relational operators against rhs of a signed (rs) or unsigned type.
Compare(rhs, rs) ==
    /\ pc = "idle"
    /\ alive
    /\ pc' = "called"
    /\ Effect("compare", "", rhs, Quiet(m_t), "none")
    /\ cmp' = [b |-> rhs, bs |-> rs,
               lt |-> OpLess(rhs, rs), gt |-> OpGreater(rhs, rs),
               eq |-> OpEqual(rhs, rs), ne |-> OpNotEqual(rhs, rs),
               ge |-> OpGreaterEqual(rhs, rs), le |-> OpLessEqual(rhs, rs)]
    /\ UNCHANGED <<variant, policy, alive, origin, cap>>

\* The full expression ends: the returned temporary, the comparison results
\* and the record of the call are gone.  The caller keeps the result of a
\* postfix operator over the next call, reads it there and drops it.
Discard ==
    /\ pc = "called"
    /\ pc' = "idle"
    /\ op' = NoOp
    /\ errs' = <<>>
    /\ thrown' = FALSE
    /\ ret' = NoRet
    /\ cmp' = NoCmp
    /\ unvalidated' = FALSE
    /\ cap' = IF op.name = "postfix" THEN cap ELSE NoCap
    /\ UNCHANGED <<variant, policy, alive, origin, m_t>>

Next ==
    \/ \E t \in RawValues : Construct(t)
    \/ DefaultConstruct
    \/ CopyConstruct
    \/ Destroy
    \/ Get
    \/ Convert
    \/ \E rhs \in RawValues : Assign(rhs)
    \/ \E k \in OpKinds : \E r \in Operands(k) : Compound(k, r)
    \/ \E k \in {"add", "sub"} : Prefix(k)
    \/ \E k \in {"add", "sub"} : Postfix(k)
    \/ Neg
    \/ Compl
    \/ \E rs \in BOOLEAN : \E rhs \in CmpOperands(rs) : Compare(rhs, rs)
    \/ Discard

Spec == Init /\ [][Next]_vars

(***************************************************************************)
(* Properties.                                                              *)
(***************************************************************************)
\* The object was made by value construction from an accepted value, or by
\* copy construction from such an object.
Constructed == alive /\ origin \in {"value", "copy"}

\* What the caller reads through the result it kept from a postfix operator.
ReadCap == IF cap.kind = "ref" THEN m_t ELSE cap.val

B2N(p) == IF p THEN 1 ELSE 0

\* C1: under an exception policy that does not return, a value made by
\* value or copy construction holds, after any sequence of assignments,
\* compound assignments, increments, decrements and unary operators, a
\* datum that validate accepts: no operator stores one it does not accept.
C1_ValidWhenObserved ==
    (policy = "throw" /\ Constructed) => validate(m_t)

\* C2: assigning a value that validate rejects to a valid SafeValue calls
\* range_error, and if the policy returns the stored datum is still the
\* prior value.
C2_RejectedAssignKeepsValue ==
    (op.name = "assign" /\ Constructed /\ validate(op.pre) /\ ~validate(op.arg))
        => (errs = <<"range_error">> /\ m_t = op.pre)

\* C3: prefix increment at the domain's maximum (prefix decrement at its
\* minimum) calls overflow_error and the datum becomes neither the
\* out-of-domain result nor its wrapped-around value.
C3_PrefixAtBoundary ==
    LET r == Exact(op.kind, op.pre, 1)
    IN  (op.name = "prefix" /\ Constructed /\ validate(op.pre) /\ ~validate(r))
            => /\ \E i \in DOMAIN errs : errs[i] = "overflow_error"
               /\ m_t # r
               /\ m_t # ToStored(r)

\* C4: the result of postfix increment and of postfix decrement equals the
\* operand's value before the operation and keeps that value whatever is
\* done to the operand afterwards.
C4_PostfixResultIsIndependentCopy ==
    (Constructed /\ cap.kind # "none" /\ errs = <<>>) => ReadCap = cap.pre

\* C5: operator<, operator> and operator== of a SafeValue holding a against
\* b of any signedness and width agree with the order of the integers, so
\* exactly one of a < b, b < a, a = b is reported; a negative signed value
\* is less than every unsigned one.
C5_ComparisonAgreesWithOrder ==
    op.name = "compare" =>
        /\ cmp.lt = (op.pre < cmp.b)
        /\ cmp.gt = (cmp.b < op.pre)
        /\ cmp.eq = (op.pre = cmp.b)
        /\ B2N(cmp.lt) + B2N(cmp.gt) + B2N(cmp.eq) = 1

\* C5 witness: a signed -1 compared with the largest unsigned operand.
C5_Witness ==
    /\ op.name = "compare"
    /\ variant.signed
    /\ op.pre = -1
    /\ ~cmp.bs
    /\ cmp.b = RepMax(FALSE, CmpWidth)
    /\ cmp.lt
    /\ ~cmp.gt

\* C6: constructing from a value outside the domain calls range_error once
\* and nothing else, and leaves no SafeValue whose datum validate accepts;
\* constructing from a value inside the domain calls nothing.
C6_ConstructOutsideDomain ==
    op.name = "construct" =>
        IF validate(op.arg)
        THEN errs = <<>>
        ELSE errs = <<"range_error">> /\ ~(alive /\ validate(m_t))

\* C7: after x OP= r on a valid x with (old x) OP r in the domain, the datum
\* is (old x) OP r for that same OP, and it was stored through operator=,
\* that is, after validate accepted it.
C7_CompoundIsSameOperatorThenAssign ==
    (/\ op.name = "compound"
     /\ Constructed
     /\ validate(op.pre)
     /\ ~BadShift(op.kind, op.pre, op.arg)
     /\ validate(Exact(op.kind, op.pre, op.arg)))
        => (m_t = Exact(op.kind, op.pre, op.arg) /\ ~unvalidated)

\* C8: postfix increment (decrement) of a valid v stores v+1 (v-1) when that
\* is in the domain; otherwise it calls overflow_error and the datum stays v.
C8_PostfixMutates ==
    LET r == Exact(op.kind, op.pre, 1)
    IN  (op.name = "postfix" /\ Constructed /\ validate(op.pre))
            => IF validate(r)
               THEN m_t = r
               ELSE /\ \E i \in DOMAIN errs : errs[i] = "overflow_error"
                    /\ m_t = op.pre

\* C9: unary minus of a valid v returns 0 - v when that is in the domain,
\* calls overflow_error when it is not, and never returns v itself for
\* v # 0.
C9_UnaryMinus ==
    (op.name = "neg" /\ Constructed /\ validate(op.pre))
        => /\ validate(0 - op.pre) => (ret.kind = "copy" /\ ret.val = 0 - op.pre)
           /\ ~validate(0 - op.pre)
                  => \E i \in DOMAIN errs : errs[i] = "overflow_error"
           /\ (op.pre # 0 /\ ret.kind = "copy") => ret.val # op.pre

\* C10: get_stored_value, the conversion to Stored, the relational operators,
\* unary minus and unary ~ leave the operand's datum as it was.
C10_ObserversLeaveDatum ==
    (Constructed /\ op.name \in {"get", "convert", "compare", "neg", "compl"})
        => m_t = op.pre

====
